---- MODULE Spec2Model ----
(***************************************************************************)
(* The backend health poller of bin/varnishd/cache/cache_backend_poll.c:   *)
(* the CLI thread (VBP_Insert, VBP_Control, VBP_Remove, VBP_Status), the   *)
(* dispatcher thread (vbp_thread) and the probe tasks (vbp_task) that the  *)
(* worker pool runs, all sharing the Targets, the timer heap and the       *)
(* global mutex vbp_mtx.                                                   *)
(*                                                                         *)
(* A section of code that runs with vbp_mtx held is one step.  Code that   *)
(* runs without the mutex is one step per function (vbp_start_poke,        *)
(* vbp_poke, the unlocked half of vbp_has_poked), so that other threads    *)
(* see the Target between them.                                            *)
(*                                                                         *)
(* Times are in milliseconds and kept relative to the clock: VTIM_real()   *)
(* reads now = 0 in every state and Tick moves every stored time TICK ms   *)
(* into the past.                                                          *)
(*                                                                         *)
(* A thread that touches a Target after FREE_OBJ has undefined behaviour:  *)
(* the step that would do so sets uaf and nothing is modelled after it.    *)
(*                                                                         *)
(* A uint64_t history bitmap is the set of its one-bit positions, a        *)
(* subset of 0..63, so that shifts lose bit 63 as the code does.           *)
(***************************************************************************)
EXTENDS Integers, Sequences, FiniteSets, TLC

VARIABLES
    vt,        \* Target  -> struct vbp_target (and the state of its memory)
    be,        \* Target  -> the struct backend the Target reports to
    vbp_heap,  \* the timer heap, root first
    disp,      \* the dispatcher thread: position, vt, nxt, pending signal
    tasks,     \* Target -> position -> number of vbp_task runs there
    cli,       \* the CLI thread: idle, inside VBP_Insert or inside VBP_Remove
    vsl,       \* Target -> last SLT_Backend_health line logged for its backend
    uaf,       \* some thread touched a Target after FREE_OBJ
    aborted,   \* an assertion failed: the process is gone
    budget,    \* dispatches left (bounds the exploration only)
    io         \* the locals of the vbp_poke that runs, the socket and the clock

vars == <<vt, be, vbp_heap, disp, tasks, cli, vsl, uaf, aborted, budget, io>>

(***************************************************************************)
(* Bounds of the exploration                                               *)
(***************************************************************************)
MaxDispatch == 2    \* dispatches (probe runs) explored per behaviour
MaxLate == 1        \* how far a thread may run behind a deadline, in ticks
MaxQueue == 2       \* tasks the worker pool holds when dispatches are unbounded
Res == 2            \* clock readings per millisecond inside vbp_poke
MaxReads == 2       \* reads of one probe that return response bytes

\* the backends of the process, and those of them that the VCL gives a probe
\* where one Target is enough
Backends == {"b1", "b2"}
Targets == {"b1"}
NONE == "none"

(***************************************************************************)
(* Program constants                                                       *)
(***************************************************************************)
BITS == 64             \* width of a history bitmap (uint64_t)
UNSET == -1            \* ~0U in probe.initial: "initial not given"
BINHEAP_NOIDX == 0     \* heap_idx of a Target that is not on the heap
DEF_TIMEOUT == 2000    \* 2.0 s
DEF_INTERVAL == 5000   \* 5.0 s
DEF_WINDOW == 8
DEF_THRESHOLD == 3
DEF_EXP_STATUS == 200
IDLE_WAIT == 8192      \* 8.192 s, the dispatcher's wait on an empty heap
now == 0               \* VTIM_real(), see the note on time above

\* the resolution of the clock: half the idle wait
TICK == IDLE_WAIT \div 2
Oldest == -(MaxLate * TICK)

\* tbl/backend_poll.h: the BITMAP() table, in its order
BITMAPS == <<"good_ipv4", "good_ipv6", "err_xmit", "good_xmit",
             "err_recv", "good_recv", "happy">>
BitmapNames == {BITMAPS[i] : i \in 1..Len(BITMAPS)}

TaskPcs == {"queued", "poke", "count", "publish", "exit"}

(***************************************************************************)
(* uint64_t bitmaps                                                        *)
(***************************************************************************)
\* n <<= 1
Shl(S) == {i + 1 : i \in {j \in S : j + 1 < BITS}}
\* n |= 1
Or1(S) == S \cup {0}
\* n & 1
Bit0(S) == 0 \in S

(***************************************************************************)
(* vbp_set_defaults                                                        *)
(***************************************************************************)
vbp_set_defaults(p) ==
    LET p1 == [p  EXCEPT !.timeout = IF @ = 0 THEN DEF_TIMEOUT ELSE @]
        p2 == [p1 EXCEPT !.interval = IF @ = 0 THEN DEF_INTERVAL ELSE @]
        p3 == [p2 EXCEPT !.window = IF @ = 0 THEN DEF_WINDOW ELSE @]
        p4 == [p3 EXCEPT !.threshold = IF @ = 0 THEN DEF_THRESHOLD ELSE @]
        p5 == [p4 EXCEPT !.exp_status = IF @ = 0 THEN DEF_EXP_STATUS ELSE @]
        p6 == [p5 EXCEPT !.initial =
                  IF @ = UNSET THEN p5.threshold - 1 ELSE @]
    IN  [p6 EXCEPT !.initial = IF @ > p6.threshold THEN p6.threshold ELSE @]

(***************************************************************************)
(* vbp_start_poke, vbp_poke, vbp_has_poked                                 *)
(***************************************************************************)
vbp_start_poke(v) ==
    [v EXCEPT !.bm = [n \in BitmapNames |-> Shl(v.bm[n])]]

\* One run of vbp_poke is decided by what the network does:
\*   af     the family of the connected socket, 0 when VBT_Open fails
\*   how    where the probe ends
\*   status the status sscanf reads from the response line, 0 if none
SetBit(v, n) == [v EXCEPT !.bm[n] = Or1(@)]

vbp_poke(v, o) ==
    IF o.af = 0 THEN v
    ELSE
      LET v1 == SetBit(v, IF o.af = 4 THEN "good_ipv4" ELSE "good_ipv6")
      IN  CASE o.how = "late"      -> v1
            [] o.how = "xmit_err"  -> SetBit(v1, "err_xmit")
            [] o.how = "short"     -> v1
            [] o.how = "poll0"     -> SetBit(v1, "good_xmit")
            [] o.how = "recv_err"  -> SetBit(SetBit(v1, "good_xmit"), "err_recv")
            [] o.how = "empty"     -> SetBit(v1, "good_xmit")
            [] OTHER ->
                 LET v2 == SetBit(SetBit(v1, "good_xmit"), "good_recv")
                 IN  IF o.status # 0 /\ o.status = v.probe.exp_status
                     THEN SetBit(v2, "happy") ELSE v2

\* as CountGood, but the loop starts after the newest bit
CountGoodSkip(v) == Cardinality({i \in v.bm.happy : 0 < i /\ i < v.probe.window})

\* the loop that counts the one-bits among the low `window` bits of happy
CountGood(v) == Cardinality({i \in v.bm.happy : i < v.probe.window})

\* vbp_has_poked up to Lck_Lock: runs without the mutex
vbp_has_poked_count(v) == [v EXCEPT !.good = CountGood(v)]

\* vbp_has_poked from Lck_Lock: the backend after the critical section
HealthMsg(v, b) ==
    IF v.good >= v.probe.threshold
    THEN IF b.healthy THEN "Still healthy" ELSE "Back healthy"
    ELSE IF b.healthy THEN "Went sick" ELSE "Still sick"

\* as vbp_has_poked_locked, but without the test of vt->backend
vbp_has_poked_anyway(v, b) ==
    [b EXCEPT
        !.health_changed =
            IF HealthMsg(v, b) \in {"Back healthy", "Went sick"} THEN now ELSE @,
        !.healthy = (v.good >= v.probe.threshold),
        !.vsc_happy = v.bm.happy]

\* as vbp_has_poked_locked, but "Went sick" forgets the stamp
vbp_has_poked_nostamp(v, b) ==
    IF ~v.backend THEN b
    ELSE [b EXCEPT
            !.health_changed =
                IF HealthMsg(v, b) = "Back healthy" THEN now ELSE @,
            !.healthy = (v.good >= v.probe.threshold),
            !.vsc_happy = v.bm.happy]

vbp_has_poked_locked(v, b) ==
    IF ~v.backend THEN b
    ELSE LET msg == HealthMsg(v, b)
         IN  [b EXCEPT
                !.health_changed =
                    IF msg \in {"Back healthy", "Went sick"} THEN now ELSE @,
                !.healthy = (v.good >= v.probe.threshold),
                !.vsc_happy = v.bm.happy]

\* the SLT_Backend_health line of that critical section
LogLine(v, b, old) ==
    IF ~v.backend THEN old
    ELSE [good |-> v.good, msg |-> HealthMsg(v, b), seq |-> 1 - old.seq]

(***************************************************************************)
(* The timer heap (binary_heap.c), kept with its root first                *)
(***************************************************************************)
\* as vbp_cmp, but the later Target comes first
vbp_cmp_later(a, b) == a.due > b.due

\* vbp_cmp
vbp_cmp(a, b) == a.due < b.due

binheap_root(h) == IF h = <<>> THEN NONE ELSE Head(h)

binheap_delete(h, t) == SelectSeq(h, LAMBDA x : x # t)

\* a new element sifts up past the elements it compares before
binheap_insert(h, t, f) ==
    LET k == Cardinality({i \in 1..Len(h) : ~vbp_cmp(f[t], f[h[i]])})
    IN  SubSeq(h, 1, k) \o <<t>> \o SubSeq(h, k + 1, Len(h))

\* as vbp_update, but an element taken off the heap keeps its index
vbp_update_stale(f, h) ==
    [t \in Backends |->
        [f[t] EXCEPT !.heap_idx =
            IF \E i \in 1..Len(h) : h[i] = t
            THEN CHOOSE i \in 1..Len(h) : h[i] = t
            ELSE @]]

\* vbp_update, called by the heap for every element it moves or removes
vbp_update(f, h) ==
    [t \in Backends |->
        [f[t] EXCEPT !.heap_idx =
            IF \E i \in 1..Len(h) : h[i] = t
            THEN CHOOSE i \in 1..Len(h) : h[i] = t
            ELSE BINHEAP_NOIDX]]

OnHeap(t) == \E i \in 1..Len(vbp_heap) : vbp_heap[i] = t

\* the places of Target t on the heap
Places(t) == {i \in 1..Len(vbp_heap) : vbp_heap[i] = t}

InFlight(t) == tasks[t]["queued"] + tasks[t]["poke"] + tasks[t]["count"]
               + tasks[t]["publish"] + tasks[t]["exit"]

(***************************************************************************)
(* The state after VBP_Init: no Target yet, the dispatcher about to take   *)
(* the mutex for the first time                                            *)
(***************************************************************************)
NoProbe == [timeout |-> 0, interval |-> 0, window |-> 0, threshold |-> 0,
            exp_status |-> 0, initial |-> 0]

\* ALLOC_OBJ: zeroed memory
NoTarget == [bm |-> [n \in BitmapNames |-> {}], probe |-> NoProbe,
             good |-> 0, backend |-> FALSE, due |-> 0,
             heap_idx |-> BINHEAP_NOIDX, mem |-> "none", running |-> 0]

NoLine == [good |-> 0, msg |-> NONE, seq |-> 0]

\* no vbp_poke is running.  The fields are the locals of vbp_poke (t_start,
\* t_now, t_end, tmo, i, rlen), the socket s, the clock clk that VTIM_real()
\* reads, and what the network did to this probe: the family af of the
\* peer, the result wr of write(), whether a poll timed out (poll0),
\* whether the budget was found spent (late), the status sscanf found.
NoPoke == [i |-> 0, af |-> 0, status |-> 0, t |-> NONE, pc |-> "idle",
           clk |-> 0, t_start |-> 0, t_now |-> 0, t_end |-> 0, tmo |-> 0,
           rlen |-> 0, s |-> "none", wr |-> "none", poll0 |-> FALSE,
           late |-> FALSE]
CliIdle == [p |-> NoProbe, t |-> NONE, pc |-> NONE, op |-> "idle", u |-> 0]
DispStart == [vt |-> NONE, pc |-> "eval", nxt |-> 0, sig |-> FALSE]

Init ==
    /\ vt = [t \in Backends |-> NoTarget]
    /\ be \in [Backends -> {[probe |-> FALSE, healthy |-> h,
                             health_changed |-> Oldest, vsc_happy |-> {}] :
                            h \in BOOLEAN}]
    /\ \A t \in Backends \ Targets : be[t].healthy
    /\ vbp_heap = <<>>
    /\ disp = DispStart
    /\ tasks = [t \in Backends |-> [p \in TaskPcs |-> 0]]
    /\ cli = CliIdle
    /\ vsl = [t \in Backends |-> NoLine]
    /\ uaf = FALSE
    /\ aborted = FALSE
    /\ budget = MaxDispatch
    /\ io = NoPoke

\* the process runs: no assertion has failed, no freed memory was touched
Up == ~aborted /\ ~uaf

\* a thread is about to read or write the memory of Target t
Touch(t) == vt[t].mem # "freed"

(***************************************************************************)
(* VBP_Insert, one step per call it makes on the new Target                *)
(***************************************************************************)
\* vbp_has_poked as VBP_Insert calls it, on the CLI thread
InsertHasPoked(t) ==
    LET v == vbp_has_poked_count(vt[t])
    IN  /\ vt' = [vt EXCEPT ![t] = v]
        /\ be' = [be EXCEPT ![t] = vbp_has_poked_locked(v, @)]
        /\ vsl' = [vsl EXCEPT ![t] = LogLine(v, be[t], @)]

\* ALLOC_OBJ .. vbp_build_req, and the first test of the seeding loop
VBP_Insert(t, p) ==
    /\ Up /\ cli.op = "idle"
    /\ vt[t].mem = "none" /\ ~be[t].probe
    /\ LET q == vbp_set_defaults(p)
       IN  /\ vt' = [vt EXCEPT ![t] = [NoTarget EXCEPT !.mem = "live",
                                          !.probe = q, !.backend = TRUE]]
           /\ cli' = [p |-> p, t |-> t,
                      pc |-> IF 0 < q.initial THEN "start" ELSE "final",
                      op |-> "insert", u |-> 0]
    /\ UNCHANGED <<be, vbp_heap, disp, tasks, vsl,
                   uaf, aborted, budget, io>>

\* if (u) vbp_has_poked(vt);
InsertPokedAgain ==
    /\ Up /\ cli.op = "insert" /\ cli.pc = "again"
    /\ InsertHasPoked(cli.t)
    /\ cli' = [cli EXCEPT !.pc = "start"]
    /\ UNCHANGED <<vbp_heap, disp, tasks, uaf, aborted, budget, io>>

\* vbp_start_poke(vt); vt->happy |= 1;
InsertSeed ==
    /\ Up /\ cli.op = "insert" /\ cli.pc = "start"
    /\ vt' = [vt EXCEPT ![cli.t] = SetBit(vbp_start_poke(@), "happy")]
    /\ cli' = [cli EXCEPT !.pc = "poked"]
    /\ UNCHANGED <<be, vbp_heap, disp, tasks, vsl,
                   uaf, aborted, budget, io>>

\* vbp_has_poked(vt); u++ and the loop test
InsertPoked ==
    /\ Up /\ cli.op = "insert" /\ cli.pc = "poked"
    /\ InsertHasPoked(cli.t)
    /\ cli' = [cli EXCEPT !.u = @ + 1,
                          !.pc = IF cli.u + 1 < vt[cli.t].probe.initial
                                 THEN "again" ELSE "final"]
    /\ UNCHANGED <<vbp_heap, disp, tasks, uaf, aborted, budget, io>>

\* b->probe = vt; vbp_has_poked(vt);
InsertFinal ==
    /\ Up /\ cli.op = "insert" /\ cli.pc = "final"
    /\ LET t == cli.t
           v == vbp_has_poked_count(vt[t])
       IN  /\ vt' = [vt EXCEPT ![t] = v]
           /\ be' = [be EXCEPT ![t] =
                        vbp_has_poked_locked(v, [@ EXCEPT !.probe = TRUE])]
           /\ vsl' = [vsl EXCEPT ![t] = LogLine(v, be[t], @)]
    /\ cli' = CliIdle
    /\ UNCHANGED <<vbp_heap, disp, tasks, uaf, aborted, budget, io>>

(***************************************************************************)
(* VBP_Control                                                             *)
(***************************************************************************)
VBP_Control(t, enable) ==
    /\ Up /\ cli.op = "idle" /\ be[t].probe
    /\ IF enable
       THEN IF vt[t].heap_idx # BINHEAP_NOIDX
            THEN /\ aborted' = TRUE
                 /\ UNCHANGED <<vt, vbp_heap, disp>>
            ELSE LET f == [vt EXCEPT ![t].due = now]
                     h == binheap_insert(vbp_heap, t, f)
                 IN  /\ vbp_heap' = h
                     /\ vt' = vbp_update(f, h)
                     /\ disp' = [disp EXCEPT
                                   !.sig = (@ \/ disp.pc = "wait")]
                     /\ UNCHANGED aborted
       ELSE IF vt[t].heap_idx = BINHEAP_NOIDX
            THEN /\ aborted' = TRUE
                 /\ UNCHANGED <<vt, vbp_heap, disp>>
            ELSE LET h == binheap_delete(vbp_heap, t)
                 IN  /\ vbp_heap' = h
                     /\ vt' = vbp_update(vt, h)
                     /\ UNCHANGED <<disp, aborted>>
    /\ UNCHANGED <<be, tasks, cli, vsl, uaf, budget, io>>

(***************************************************************************)
(* VBP_Remove: the critical section, then the free of an idle Target       *)
(***************************************************************************)
VBP_Remove(t) ==
    /\ Up /\ cli.op = "idle" /\ be[t].probe
    /\ be' = [be EXCEPT ![t].healthy = TRUE, ![t].probe = FALSE]
    /\ IF vt[t].running # 0
       THEN /\ vt' = [vt EXCEPT ![t].backend = FALSE, ![t].running = -1]
            /\ UNCHANGED cli
       ELSE /\ vt' = [vt EXCEPT ![t].backend = FALSE]
            /\ cli' = [CliIdle EXCEPT !.op = "free", !.t = t]
    /\ UNCHANGED <<vbp_heap, disp, tasks, vsl, uaf, aborted, budget, io>>

\* VBT_Rel(&vt->tcp_pool); free(vt->req); FREE_OBJ(vt);
FreeTarget(f, t) == [f EXCEPT ![t].mem = "freed"]

RemoveFree ==
    /\ Up /\ cli.op = "free"
    /\ Touch(cli.t)
    /\ vt' = FreeTarget(vt, cli.t)
    /\ cli' = CliIdle
    /\ UNCHANGED <<be, vbp_heap, disp, tasks, vsl, aborted, budget, uaf, io>>

(***************************************************************************)
(* VBP_Status: reads the Target without the mutex                          *)
(***************************************************************************)
StatusOut(t, details) ==
    [window |-> vt[t].probe.window,
     happy |-> IF details THEN vt[t].bm.happy ELSE {}, good |-> vt[t].good]

\* the output goes to the CLI; nothing of the poller changes
VBP_Status(t, details) ==
    /\ Up /\ cli.op = "idle" /\ be[t].probe
    /\ UNCHANGED vars

(***************************************************************************)
(* vbp_thread, the dispatcher                                              *)
(***************************************************************************)
\* Lck_CondWait(&vbp_cond, &vbp_mtx, nxt): give up the mutex and sleep
CondWait(nxt) == [vt |-> NONE, pc |-> "wait", nxt |-> nxt, sig |-> FALSE]

\* the heap is empty: nxt = 8.192 + now
DispIdle ==
    /\ Up /\ disp.pc = "eval"
    /\ binheap_root(vbp_heap) = NONE
    /\ disp' = CondWait(IDLE_WAIT + now)
    /\ UNCHANGED <<vt, be, vbp_heap, tasks, cli,
                   vsl, uaf, aborted, budget, io>>

\* the root is not due yet: nxt = vt->due
DispNotDue ==
    /\ Up /\ disp.pc = "eval"
    /\ binheap_root(vbp_heap) # NONE
    /\ LET r == binheap_root(vbp_heap)
       IN  /\ vt[r].due > now
           /\ disp' = CondWait(vt[r].due)
           /\ Touch(r)
    /\ UNCHANGED <<vt, be, vbp_heap, tasks, cli,
                   vsl, aborted, budget, uaf, io>>

\* the root is due: take it off the heap, mark it running, put it back
\* as Dispatch, but the due time is not advanced
DispatchSameDue(f, r) == [f EXCEPT ![r].running = 1]

\* as Dispatch, but the new due time is counted from the old one
DispatchFromDue(f, r) ==
    [f EXCEPT ![r].running = 1, ![r].due = @ + f[r].probe.interval]

Dispatch(f, r) ==
    [f EXCEPT ![r].running = 1, ![r].due = now + f[r].probe.interval]

DispPop ==
    /\ Up /\ disp.pc = "eval"
    /\ binheap_root(vbp_heap) # NONE
    /\ LET r == binheap_root(vbp_heap)
           f == Dispatch(vt, r)
           h == binheap_insert(binheap_delete(vbp_heap, r), r, f)
       IN  /\ vt[r].due <= now
           /\ vbp_heap' = h
           /\ vt' = vbp_update(f, h)
           /\ disp' = [vt |-> r, pc |-> "submit", nxt |-> 0, sig |-> FALSE]
           /\ Touch(r)
    /\ UNCHANGED <<be, tasks, cli, vsl, aborted, uaf, io>>

\* Lck_CondWait returns: signalled by VBP_Control, or nxt has passed
WakeUp(d) == d.sig \/ d.nxt <= now

DispWake ==
    /\ Up /\ disp.pc = "wait"
    /\ WakeUp(disp)
    /\ disp' = DispStart
    /\ UNCHANGED <<vt, be, vbp_heap, tasks, cli,
                   vsl, uaf, aborted, budget, io>>

\* pthread_cond_timedwait may also return for no reason
DispSpurious ==
    /\ Up /\ disp.pc = "wait"
    /\ ~WakeUp(disp)
    /\ disp' = DispStart
    /\ UNCHANGED <<vt, be, vbp_heap, tasks, cli,
                   vsl, uaf, aborted, budget, io>>

\* vt->task.func = ..; Pool_Task_Any() returns 0: the task is queued
DispSubmitOk ==
    /\ Up /\ disp.pc = "submit"
    /\ Touch(disp.vt)
    /\ tasks' = [tasks EXCEPT ![disp.vt]["queued"] = @ + 1]
    /\ disp' = DispStart
    /\ UNCHANGED <<vt, be, vbp_heap, cli, vsl, aborted, budget, uaf, io>>

\* Pool_Task_Any() fails
DispSubmitFail ==
    /\ Up /\ disp.pc = "submit"
    /\ Touch(disp.vt)
    /\ disp' = [disp EXCEPT !.pc = "fail"]
    /\ UNCHANGED <<vt, be, vbp_heap, tasks, cli,
                   vsl, aborted, budget, uaf, io>>

\* as ResetRunning, but the Target is left marked running
KeepRunning(f, t) == f

\* Lck_Lock; vt->running = 0; Lck_Unlock
ResetRunning(f, t) == [f EXCEPT ![t].running = 0]

DispFail ==
    /\ Up /\ disp.pc = "fail"
    /\ Touch(disp.vt)
    /\ vt' = ResetRunning(vt, disp.vt)
    /\ disp' = DispStart
    /\ UNCHANGED <<be, vbp_heap, tasks, cli, vsl, aborted, budget, uaf, io>>

(***************************************************************************)
(* vbp_task, on a worker thread                                            *)
(***************************************************************************)
Move(t, from, to) ==
    /\ tasks[t][from] > 0
    /\ tasks' = [tasks EXCEPT ![t][from] = @ - 1, ![t][to] = @ + 1]

\* CAST_OBJ_NOTNULL .. vbp_start_poke(vt)
TaskStart(t) ==
    /\ Up /\ Move(t, "queued", "poke")
    /\ Touch(t)
    /\ vt' = [vt EXCEPT ![t] = vbp_start_poke(@)]
    /\ UNCHANGED <<be, vbp_heap, disp, cli, vsl, aborted, budget, uaf, io>>

\* vbp_poke(vt)
TaskPoke(t, o) ==
    /\ Up /\ Move(t, "poke", "count")
    /\ Touch(t)
    /\ vt' = [vt EXCEPT ![t] = vbp_poke(@, o)]
    /\ UNCHANGED <<be, vbp_heap, disp, cli, vsl, aborted, budget, uaf, io>>

\* vbp_has_poked(vt) up to Lck_Lock
TaskCount(t) ==
    /\ Up /\ Move(t, "count", "publish")
    /\ Touch(t)
    /\ vt' = [vt EXCEPT ![t] = vbp_has_poked_count(@)]
    /\ UNCHANGED <<be, vbp_heap, disp, cli, vsl, aborted, budget, uaf, io>>

\* vbp_has_poked(vt) from Lck_Lock to Lck_Unlock
TaskPublish(t) ==
    /\ Up /\ Move(t, "publish", "exit")
    /\ Touch(t)
    /\ be' = [be EXCEPT ![t] = vbp_has_poked_locked(vt[t], @)]
    /\ vsl' = [vsl EXCEPT ![t] = LogLine(vt[t], be[t], @)]
    /\ UNCHANGED <<vt, vbp_heap, disp, cli, aborted, budget, uaf, io>>

\* the last critical section of vbp_task: free a doomed Target, or go idle
\* as TaskDone, but a live Target is left marked running
TaskDoneStuck(f, t) ==
    IF f[t].running < 0 THEN FreeTarget(f, t) ELSE f

TaskDone(f, t) ==
    IF f[t].running < 0 THEN FreeTarget(f, t) ELSE ResetRunning(f, t)

TaskExit(t) ==
    /\ Up /\ tasks[t]["exit"] > 0
    /\ tasks' = [tasks EXCEPT ![t]["exit"] = @ - 1]
    /\ Touch(t)
    /\ vt' = TaskDone(vt, t)
    /\ UNCHANGED <<be, vbp_heap, disp, cli, vsl, aborted, budget, uaf, io>>

\* the Targets some thread is about to read or write
Using ==
    {t \in Backends : InFlight(t) > 0}
    \cup {t \in Backends : disp.pc \in {"submit", "fail"} /\ disp.vt = t}
    \cup {t \in Backends : disp.pc = "eval" /\ binheap_root(vbp_heap) = t}
    \cup {t \in Backends : cli.op = "free" /\ cli.t = t}

\* one of them runs on a Target that was freed: undefined behaviour
UseAfterFree ==
    /\ Up
    /\ \E t \in Using : vt[t].mem = "freed"
    /\ uaf' = TRUE
    /\ UNCHANGED <<vt, be, vbp_heap, disp, tasks, cli, vsl, aborted, budget, io>>

(***************************************************************************)
(* The clock                                                               *)
(***************************************************************************)
Past(x) == IF x > Oldest THEN x - TICK ELSE x

Tick ==
    /\ Up
    /\ \A t \in Backends : OnHeap(t) => vt[t].due > Oldest
    /\ disp.pc = "wait" => disp.nxt > Oldest
    /\ vt' = [t \in Backends |->
                 IF OnHeap(t) THEN [vt[t] EXCEPT !.due = @ - TICK] ELSE vt[t]]
    /\ disp' = IF disp.pc = "wait" THEN [disp EXCEPT !.nxt = @ - TICK]
               ELSE disp
    /\ be' = [t \in Backends |-> [be[t] EXCEPT !.health_changed = Past(@)]]
    /\ UNCHANGED <<vbp_heap, tasks, cli, vsl, uaf, aborted, budget, io>>

(***************************************************************************)
(* The specification: any interleaving of the three kinds of thread        *)
(***************************************************************************)
\* probe specs the VCL hands to VBP_Insert
ProbeSpecs ==
    { [timeout |-> TICK, interval |-> TICK, window |-> w, threshold |-> th,
       exp_status |-> 0, initial |-> i] :
          <<w, th, i>> \in {<<2, 1, UNSET>>, <<2, 2, 2>>} }

\* what the network does to one probe
Outcomes ==
    { [af |-> 0, how |-> "noconn", status |-> 0],
      [af |-> 4, how |-> "resp", status |-> 200] }

\* the CLI removes a backend after it has disabled its probe
CliRemove ==
    \E t \in Targets : vt[t].heap_idx = BINHEAP_NOIDX /\ VBP_Remove(t)

\* the exploration stops dispatching after MaxDispatch dispatches
DispPopBounded == budget > 0 /\ DispPop /\ budget' = budget - 1

Next ==
    \/ \E t \in Targets, p \in ProbeSpecs : VBP_Insert(t, p)
    \/ InsertPokedAgain
    \/ InsertSeed
    \/ InsertPoked
    \/ InsertFinal
    \/ \E t \in Targets, e \in BOOLEAN : VBP_Control(t, e)
    \/ CliRemove
    \/ RemoveFree
    \/ \E t \in Targets, d \in BOOLEAN : VBP_Status(t, d)
    \/ DispIdle
    \/ DispNotDue
    \/ DispPopBounded
    \/ DispWake
    \/ DispSpurious
    \/ DispSubmitOk
    \/ DispSubmitFail
    \/ DispFail
    \/ \E t \in Targets : TaskStart(t)
    \/ \E t \in Targets, o \in Outcomes : TaskPoke(t, o)
    \/ \E t \in Targets : TaskCount(t)
    \/ \E t \in Targets : TaskPublish(t)
    \/ \E t \in Targets : TaskExit(t)
    \/ UseAfterFree
    \/ Tick

Spec == Init /\ [][Next]_vars

(***************************************************************************)
(* The sequential harness: VBP_Insert with any probe spec, then probe      *)
(* tasks run one after the other                                           *)
(***************************************************************************)
AllProbeSpecs ==
    [timeout : {0, TICK}, interval : {0, TICK}, window : {0, 2, BITS + 1},
     threshold : {0, 1, 3}, exp_status : {0, 500}, initial : {UNSET, 0, 1, 4}]

SeqOutcomes ==
    { [af |-> 0, how |-> "noconn", status |-> 0],
      [af |-> 4, how |-> "resp", status |-> 200],
      [af |-> 6, how |-> "resp", status |-> 500] }

\* a worker takes a probe task of an idle Target
SeqSubmit(t) ==
    /\ Up /\ cli.op = "idle" /\ be[t].probe /\ InFlight(t) = 0
    /\ budget > 0 /\ budget' = budget - 1
    /\ tasks' = [tasks EXCEPT ![t]["queued"] = @ + 1]
    /\ UNCHANGED <<vt, be, vbp_heap, disp, cli, vsl, uaf, aborted, io>>

SeqNext ==
    \/ \E t \in Targets, p \in AllProbeSpecs : VBP_Insert(t, p)
    \/ InsertPokedAgain
    \/ InsertSeed
    \/ InsertPoked
    \/ InsertFinal
    \/ \E t \in Targets : SeqSubmit(t)
    \/ \E t \in Targets : TaskStart(t)
    \/ \E t \in Targets, o \in SeqOutcomes : TaskPoke(t, o)
    \/ \E t \in Targets : TaskCount(t)
    \/ \E t \in Targets : TaskPublish(t)
    \/ \E t \in Targets : TaskExit(t)

SpecSeq == Init /\ [][SeqNext]_vars

(***************************************************************************)
(* The poller left running: dispatches are not bounded, the worker pool    *)
(* refuses a task when it holds MaxQueue of them, every connect fails.     *)
(* The dispatcher and the workers are scheduled fairly, the clock          *)
(* advances, and the pool accepts a task again and again.                  *)
(***************************************************************************)
LiveProbeSpecs ==
    { [timeout |-> TICK, interval |-> TICK, window |-> 2, threshold |-> 1,
       exp_status |-> 0, initial |-> UNSET] }

LiveOutcomes == { [af |-> 0, how |-> "noconn", status |-> 0] }

DispPopFree == DispPop /\ UNCHANGED budget

PoolSubmitOk == (\A t \in Backends : InFlight(t) < MaxQueue) /\ DispSubmitOk

LiveNext ==
    \/ \E t \in Targets, p \in LiveProbeSpecs : VBP_Insert(t, p)
    \/ InsertFinal
    \/ \E t \in Targets, e \in BOOLEAN : VBP_Control(t, e)
    \/ CliRemove
    \/ RemoveFree
    \/ DispIdle
    \/ DispNotDue
    \/ DispPopFree
    \/ DispWake
    \/ DispSpurious
    \/ PoolSubmitOk
    \/ DispSubmitFail
    \/ DispFail
    \/ \E t \in Targets : TaskStart(t)
    \/ \E t \in Targets, o \in LiveOutcomes : TaskPoke(t, o)
    \/ \E t \in Targets : TaskCount(t)
    \/ \E t \in Targets : TaskPublish(t)
    \/ \E t \in Targets : TaskExit(t)
    \/ UseAfterFree
    \/ Tick

Fairness ==
    /\ WF_vars(DispIdle) /\ WF_vars(DispNotDue) /\ WF_vars(DispPopFree)
    /\ WF_vars(DispWake) /\ SF_vars(PoolSubmitOk) /\ WF_vars(DispFail)
    /\ \A t \in Targets :
          /\ WF_vars(TaskStart(t))
          /\ WF_vars(\E o \in LiveOutcomes : TaskPoke(t, o))
          /\ WF_vars(TaskCount(t))
          /\ WF_vars(TaskPublish(t))
          /\ WF_vars(TaskExit(t))
    /\ WF_vars(Tick)

LiveSpec == Init /\ [][LiveNext]_vars /\ Fairness

(***************************************************************************)
(* Two Targets with different intervals share the heap, the dispatcher and *)
(* a pool of one worker; every connect fails.                              *)
(***************************************************************************)
HeapProbeSpecs(t) ==
    { [timeout |-> TICK, interval |-> IF t = "b1" THEN TICK ELSE 2 * TICK,
       window |-> 2, threshold |-> 1, exp_status |-> 0, initial |-> UNSET] }

\* the pool has one worker thread: it takes a task when it has none
WorkerStart(t) ==
    /\ \A u \in Backends : InFlight(u) = tasks[u]["queued"]
    /\ TaskStart(t)

HeapNext ==
    \/ \E t \in Backends : \E p \in HeapProbeSpecs(t) : VBP_Insert(t, p)
    \/ InsertFinal
    \/ \E t \in Backends, e \in BOOLEAN : VBP_Control(t, e)
    \/ DispIdle
    \/ DispNotDue
    \/ DispPopBounded
    \/ DispWake
    \/ DispSpurious
    \/ DispSubmitOk
    \/ DispSubmitFail
    \/ DispFail
    \/ \E t \in Backends : WorkerStart(t)
    \/ \E t \in Backends, o \in LiveOutcomes : TaskPoke(t, o)
    \/ \E t \in Backends : TaskCount(t)
    \/ \E t \in Backends : TaskPublish(t)
    \/ \E t \in Backends : TaskExit(t)
    \/ Tick

HeapSpec == Init /\ [][HeapNext]_vars

(***************************************************************************)
(* vbp_poke statement by statement.  Inside it the clock counts in steps   *)
(* of 1/Res ms and moves only while the thread is blocked in VBT_Open or   *)
(* poll; write and read return at once.                                    *)
(***************************************************************************)
\* (int)round(x * 1e3) for x clock steps: the nearest millisecond
round_ms(x) ==
    IF x >= 0 THEN (2 * x + Res) \div (2 * Res)
    ELSE -((2 * (-x) + Res) \div (2 * Res))

\* what VSA_Get_Proto can say of the peer; 0 stands for a failed VBT_Open
AF_INET == 4
AF_INET6 == 6
AF_UNIX == 1
Families == {0, AF_INET, AF_INET6, AF_UNIX}

WriteResults == {"err", "short", "full"}

\* the statuses a response line can carry; 0 when sscanf converts nothing
Statuses == {0, 200, 500}

\* VTCP_close(&s); return;
PokeRet(l) == [l EXCEPT !.s = IF @ = "open" THEN "closed" ELSE @, !.pc = "ret"]

\* t_start = t_now = VTIM_real(); t_end = t_start + vt->probe.timeout;
PokeBegin(t) ==
    /\ Up /\ io.pc = "idle" /\ tasks[t]["poke"] > 0
    /\ io' = [NoPoke EXCEPT !.pc = "open", !.t = t,
                            !.t_end = vt[t].probe.timeout * Res]
    /\ UNCHANGED <<vt, be, vbp_heap, disp, tasks, cli, vsl, uaf, aborted,
                   budget>>

\* s = VBT_Open(..., t_end - t_now, &sa) returns after d clock steps, then
\* the bit of the peer's family is set
PokeOpen(d, af) ==
    /\ Up /\ io.pc = "open"
    /\ d <= io.t_end - io.t_now
    /\ LET l == [io EXCEPT !.clk = @ + d, !.af = af]
       IN  IF af = 0
           THEN /\ io' = PokeRet(l)
                /\ UNCHANGED <<vt, aborted>>
           ELSE IF af \notin {AF_INET, AF_INET6}
           THEN /\ aborted' = TRUE
                /\ io' = [l EXCEPT !.s = "open"]
                /\ UNCHANGED vt
           ELSE /\ io' = [l EXCEPT !.s = "open", !.pc = "budget"]
                /\ vt' = [vt EXCEPT ![io.t] =
                            SetBit(@, IF af = AF_INET THEN "good_ipv4"
                                      ELSE "good_ipv6")]
                /\ UNCHANGED aborted
    /\ UNCHANGED <<be, vbp_heap, disp, tasks, cli, vsl, uaf, budget>>

\* t_now = VTIM_real(); tmo = ...; if (tmo <= 0) { close; return; }
PokeBudget ==
    /\ Up /\ io.pc = "budget"
    /\ LET l == [io EXCEPT !.t_now = io.clk,
                           !.tmo = round_ms(io.t_end - io.clk)]
       IN  io' = IF l.tmo <= 0 THEN PokeRet([l EXCEPT !.late = TRUE])
                 ELSE [l EXCEPT !.pc = "write"]
    /\ UNCHANGED <<vt, be, vbp_heap, disp, tasks, cli, vsl, uaf, aborted,
                   budget>>

\* as WriteBits, but a short write is recorded like a write error
WriteBitsShortErr(v, r) ==
    IF r = "full" THEN SetBit(v, "good_xmit") ELSE SetBit(v, "err_xmit")

\* the bits that follow i = write(s, vt->req, vt->req_len)
WriteBits(v, r) ==
    IF r = "full" THEN SetBit(v, "good_xmit")
    ELSE IF r = "err" THEN SetBit(v, "err_xmit") ELSE v

PokeWrite(r) ==
    /\ Up /\ io.pc = "write"
    /\ vt' = [vt EXCEPT ![io.t] = WriteBits(@, r)]
    /\ io' = IF r # "full" THEN PokeRet([io EXCEPT !.wr = r])
             ELSE [io EXCEPT !.wr = r, !.rlen = 0, !.pc = "loop"]
    /\ UNCHANGED <<be, vbp_heap, disp, tasks, cli, vsl, uaf, aborted, budget>>

\* the head of the read loop: tmo is computed from the t_now that was read
\* before the write
PokeLoop ==
    /\ Up /\ io.pc = "loop"
    /\ LET l == [io EXCEPT !.tmo = round_ms(io.t_end - io.t_now)]
       IN  io' = IF l.tmo > 0 THEN [l EXCEPT !.pc = "poll"]
                 ELSE PokeRet([l EXCEPT !.late = TRUE])
    /\ UNCHANGED <<vt, be, vbp_heap, disp, tasks, cli, vsl, uaf, aborted,
                   budget>>

\* i = poll(pfd, 1, tmo): the socket is readable after d clock steps, or
\* nothing comes for tmo ms; if (i == 0) { close; return; }
PokePoll(d, ready) ==
    /\ Up /\ io.pc = "poll"
    /\ IF ready
       THEN /\ d < io.tmo * Res
            /\ io' = [io EXCEPT !.clk = @ + d, !.i = 1, !.pc = "read"]
       ELSE /\ d = io.tmo * Res
            /\ io' = PokeRet([io EXCEPT !.clk = @ + d, !.i = 0,
                                        !.poll0 = TRUE])
    /\ UNCHANGED <<vt, be, vbp_heap, disp, tasks, cli, vsl, uaf, aborted,
                   budget>>

\* i = read(...); rlen += i; while (i > 0).  After a read error rlen has
\* wrapped and is not looked at again: it is left as it is here.
PokeRead(n) ==
    /\ Up /\ io.pc = "read"
    /\ n > 0 => io.rlen < MaxReads
    /\ io' = [io EXCEPT !.i = n,
                        !.rlen = IF n > 0 THEN @ + n ELSE @,
                        !.pc = IF n > 0 THEN "loop" ELSE "after"]
    /\ UNCHANGED <<vt, be, vbp_heap, disp, tasks, cli, vsl, uaf, aborted,
                   budget>>

\* as ParseOk, but any status that sscanf converts is liked
ParseAny(v, st) == st # 0

\* (i == 1 || i == 2) && resp == vt->probe.exp_status
ParseOk(v, st) == st # 0 /\ st = v.probe.exp_status

\* the verdict on what was read
ReadBits(v, l, st) ==
    IF l.i < 0 THEN SetBit(v, "err_recv")
    ELSE IF l.rlen = 0 THEN v
    ELSE IF ParseOk(v, st) THEN SetBit(SetBit(v, "good_recv"), "happy")
    ELSE SetBit(v, "good_recv")

\* VTCP_close(&s) and everything after the loop; st is the status in the
\* response line
PokeAfter(st) ==
    /\ Up /\ io.pc = "after"
    /\ (io.i < 0 \/ io.rlen = 0) => st = 0
    /\ vt' = [vt EXCEPT ![io.t] = ReadBits(@, io, st)]
    /\ io' = PokeRet([io EXCEPT !.status = st,
                        !.t_now = IF io.i < 0 \/ io.rlen = 0 THEN @
                                  ELSE io.clk])
    /\ UNCHANGED <<be, vbp_heap, disp, tasks, cli, vsl, uaf, aborted, budget>>

\* vbp_poke returns to vbp_task
PokeReturn ==
    /\ Up /\ io.pc = "ret"
    /\ Move(io.t, "poke", "count")
    /\ io' = NoPoke
    /\ UNCHANGED <<vt, be, vbp_heap, disp, cli, vsl, uaf, aborted, budget>>

PokeProbeSpecs ==
    { [timeout |-> tm, interval |-> TICK, window |-> 2, threshold |-> 1,
       exp_status |-> 0, initial |-> UNSET] : tm \in 1..2 }

\* the longest a blocking call of the probes above can take, in clock steps
Waits == 0..(2 * Res + 1)

PokeNext ==
    \/ \E t \in Targets, p \in PokeProbeSpecs : VBP_Insert(t, p)
    \/ InsertFinal
    \/ \E t \in Targets : SeqSubmit(t)
    \/ \E t \in Targets : TaskStart(t)
    \/ \E t \in Targets : PokeBegin(t)
    \/ \E d \in Waits, af \in Families : PokeOpen(d, af)
    \/ PokeBudget
    \/ \E r \in WriteResults : PokeWrite(r)
    \/ PokeLoop
    \/ \E d \in Waits, ready \in BOOLEAN : PokePoll(d, ready)
    \/ \E n \in {-1, 0, 1} : PokeRead(n)
    \/ \E st \in Statuses : PokeAfter(st)
    \/ PokeReturn
    \/ \E t \in Targets : TaskCount(t)
    \/ \E t \in Targets : TaskPublish(t)
    \/ \E t \in Targets : TaskExit(t)

PokeSpec == Init /\ [][PokeNext]_vars

(***************************************************************************)
(* Properties of the interleaved poller (Spec)                             *)
(***************************************************************************)
\* the dispatcher holds Target t between its pop and the end of the submit
Held(t) == disp.pc \in {"submit", "fail"} /\ disp.vt = t

\* the dispatcher pops Target t in this step
Pops(t) == Held(t)' /\ ~Held(t)

\* the dispatcher goes to sleep in this step
Sleeps == disp.pc = "eval" /\ disp'.pc = "wait"

\* C1: at most one probe task of a Target is submitted or executing at any
\* time, whatever the dispatcher, the workers and VBP_Control do.
C1_OneTaskPerTarget == \A t \in Targets : InFlight(t) <= 1

\* C2: VBP_Remove never frees a Target that still has a task in flight, and
\* no thread touches a Target after it was freed.
C2_NoUseAfterFree ==
    /\ ~uaf
    /\ \A t \in Targets :
          (vt[t].mem = "freed" \/ (cli.op = "free" /\ cli.t = t))
             => InFlight(t) = 0

\* C3: a removed Target is released exactly once: by VBP_Remove when it is
\* idle, otherwise by its task, which finds running = -1 at its exit.  So a
\* removed Target that is not freed yet has somebody who will free it, and
\* nobody comes to free a Target that is freed already.
C3_ReleasedExactlyOnce ==
    \A t \in Targets :
       /\ (vt[t].mem = "live" /\ ~vt[t].backend)
             => \/ cli.op = "free" /\ cli.t = t
                \/ /\ vt[t].running = -1
                   /\ InFlight(t) > 0 \/ (disp.pc = "submit" /\ disp.vt = t)
       /\ vt[t].mem = "freed"
             => /\ tasks[t]["exit"] = 0
                /\ ~(cli.op = "free" /\ cli.t = t)

\* C4: when vbp_has_poked completes with the backend attached (it logs its
\* line then), healthy is (good >= threshold), and health_changed is
\* stamped if healthy changed and untouched if it did not.
C4_HealthFollowsGood ==
    [][\A t \in Targets :
          vsl'[t].seq # vsl[t].seq =>
             /\ be'[t].healthy = (vt'[t].good >= vt'[t].probe.threshold)
             /\ be'[t].healthy # be[t].healthy
                   => be'[t].health_changed = now
             /\ be'[t].healthy = be[t].healthy
                   => be'[t].health_changed = be[t].health_changed]_vars

\* a probe task has just made a healthy backend sick, some time after the
\* last change of its health
C4_Witness ==
    \E t \in Targets :
       /\ tasks[t]["exit"] > 0
       /\ vsl[t].msg = "Went sick"
       /\ ~be[t].healthy /\ be[t].health_changed = now

\* C6: whenever VBP_Status can read a Target, good is the number of
\* one-bits among the low `window` bits of happy.
C6_GoodIsPopcount ==
    \A t \in Targets :
       be[t].probe =>
          LET o == StatusOut(t, TRUE)
          IN  o.good = Cardinality({i \in o.happy : i < o.window})

\* C8 speaks of a Target that VBP_Insert has finished and that is off the heap
Disabled(t) ==
    vt[t].mem = "live" /\ be[t].probe /\ vt[t].heap_idx = BINHEAP_NOIDX

\* a probe in flight is not cancelled by Disable, and it ends with
\* running = 0 while the backend is attached
C8_NotCancelled ==
    \A t \in Targets :
       /\ (~Disabled(t) /\ Disabled(t)') => tasks'[t] = tasks[t]
       /\ (tasks'[t]["exit"] < tasks[t]["exit"] /\ vt[t].mem = "live"
              /\ vt[t].backend)
             => vt'[t].running = 0

\* a disabled Target that the dispatcher has not popped and that has no task
\* stays as it is
C8_Quiet ==
    \A t \in Targets :
       (Disabled(t) /\ Disabled(t)' /\ InFlight(t) = 0 /\ ~Held(t))
          => /\ vt'[t].bm = vt[t].bm /\ vt'[t].good = vt[t].good
             /\ be'[t].healthy = be[t].healthy
             /\ InFlight(t)' = 0

\* C8 as claimed: after Disable no probe task of the Target is started until
\* it is enabled again, a probe in flight is not cancelled, and a Target
\* disabled before the dispatcher popped it is not probed.
C8_NoTaskWhileDisabled ==
    [][/\ \A t \in Targets :
             Disabled(t) => tasks'[t]["queued"] <= tasks[t]["queued"]
       /\ C8_NotCancelled
       /\ C8_Quiet]_vars

\* C8 as the code has it: after Disable the dispatcher pops the Target no
\* more until it is enabled again, but a Target it popped before Disable is
\* still submitted afterwards.
C8_NoPopWhileDisabled ==
    [][/\ \A t \in Targets : Disabled(t) => (Held(t)' => Held(t))
       /\ C8_NotCancelled
       /\ C8_Quiet]_vars

\* a task reaches its last critical section while its Target is disabled
C8_Witness ==
    \E t \in Targets : Disabled(t) /\ tasks[t]["exit"] > 0 /\ vt[t].running = 1

\* VBP_Remove has detached Target t from its backend
Detached(t) == vt[t].mem # "none" /\ ~vt[t].backend

\* C12: VBP_Remove makes the backend healthy and clears backend.probe and
\* target.backend in the same critical section, and from then on nothing,
\* in particular no vbp_has_poked of the doomed Target, writes healthy,
\* health_changed or the statistics of the backend.
C12_RemoveDetaches ==
    [][\A t \in Targets :
          /\ (be[t].probe /\ ~be'[t].probe)
                => be'[t].healthy /\ Detached(t)' /\ ~Detached(t)
          /\ Detached(t)
                => \/ be'[t] = be[t]
                   \/ be'[t] = [be[t] EXCEPT !.health_changed = Past(@)]]_vars

\* the task of a doomed Target has been through vbp_has_poked with a sample
\* that would have made the backend sick
C12_Witness ==
    \E t \in Targets :
       /\ Detached(t) /\ vt[t].running = -1 /\ tasks[t]["exit"] > 0
       /\ vt[t].good < vt[t].probe.threshold /\ be[t].healthy

\* C13: running is 0 or 1 while the backend is attached; it becomes -1
\* only in VBP_Remove and only while a task of the Target is in flight;
\* once -1 it stays -1 until the task frees the Target; and a Target with
\* running = -1 is not on the heap and is held by nobody but its task.
C13_DoomedOnlyByRemove ==
    [][\A t \in Targets :
          /\ (vt[t].mem = "live" /\ vt[t].backend) => vt[t].running \in {0, 1}
          /\ (vt'[t].running = -1 /\ vt[t].running # -1)
                => /\ be[t].probe /\ ~be'[t].probe
                   /\ InFlight(t) > 0
          /\ (vt[t].running = -1 /\ vt[t].mem = "live")
                => /\ vt'[t].running = -1
                   /\ ~OnHeap(t) /\ ~Held(t)
                   /\ InFlight(t) > 0]_vars

(***************************************************************************)
(* Properties of VBP_Insert and of probes run in sequence (SpecSeq)        *)
(***************************************************************************)
HealthyMsgs == {"Still healthy", "Back healthy"}

\* VBP_Insert has returned and no probe has run yet
JustInserted(t) ==
    cli.op = "idle" /\ be[t].probe /\ budget = MaxDispatch /\ InFlight(t) = 0

\* C5: after VBP_Insert happy holds exactly `initial` one-bits, all among
\* its low initial+1 bits, and the backend is healthy exactly when
\* initial >= threshold; with initial = threshold the first line that
\* vbp_has_poked logs during VBP_Insert says healthy.
C5_SeededHealthy ==
    /\ \A t \in Targets :
          JustInserted(t) =>
             LET q == vt[t].probe
             IN  /\ Cardinality(vt[t].bm.happy) = q.initial
                 /\ \A i \in vt[t].bm.happy : i <= q.initial
                 /\ be[t].healthy <=> (q.initial >= q.threshold)
    /\ (cli.op = "insert" /\ cli.u = 1 /\ cli.pc \in {"again", "final"}
           /\ vt[cli.t].probe.initial = vt[cli.t].probe.threshold)
          => vsl[cli.t].msg \in HealthyMsgs

\* C7: after vbp_set_defaults threshold <= window <= 64 and
\* initial <= threshold, the zero-valued parameters have their defaults and
\* an unset initial is threshold - 1.
C7_DefaultsSanitize ==
    cli.op = "insert" =>
       LET q == vt[cli.t].probe
           p == cli.p
       IN  /\ q.threshold <= q.window /\ q.window <= BITS
           /\ q.initial <= q.threshold
           /\ p.timeout = 0 => q.timeout = DEF_TIMEOUT
           /\ p.interval = 0 => q.interval = DEF_INTERVAL
           /\ p.window = 0 => q.window = DEF_WINDOW
           /\ p.threshold = 0 => q.threshold = DEF_THRESHOLD
           /\ p.exp_status = 0 => q.exp_status = DEF_EXP_STATUS
           /\ p.initial = UNSET => q.initial = q.threshold - 1

\* scenario S2: a Target inserted with the defaults, between probes
S2_Target(t) ==
    /\ vt[t].mem = "live" /\ be[t].probe /\ cli.op = "idle" /\ InFlight(t) = 0
    /\ vt[t].probe.window = DEF_WINDOW /\ vt[t].probe.threshold = DEF_THRESHOLD
    /\ vt[t].probe.initial = 2 /\ vt[t].probe.exp_status = DEF_EXP_STATUS

\* the n latest probes got a response whose status was not the expected one
S2_Failed(t, n) ==
    /\ vt[t].bm.happy = {n, n + 1}
    /\ \A i \in 0..(n - 1) : i \in vt[t].bm.good_recv

S2_Sick(t, g) == vt[t].good = g /\ ~be[t].healthy

\* C10 as claimed: good is 2 after the insert and after one failing probe,
\* and 1 after the second failing probe; the backend is sick throughout.
C10_SecondFailureDropsGood ==
    \A t \in Targets :
       S2_Target(t) =>
          /\ S2_Failed(t, 0) => S2_Sick(t, 2)
          /\ S2_Failed(t, 1) => S2_Sick(t, 2)
          /\ S2_Failed(t, 2) => S2_Sick(t, 1)

\* C10 as the code has it: the two seeded one-bits are still inside the
\* window of 8 after two failing probes, so good is still 2.
C10_SecondFailureKeepsGood ==
    \A t \in Targets :
       S2_Target(t) =>
          /\ S2_Failed(t, 0) => S2_Sick(t, 2)
          /\ S2_Failed(t, 1) => S2_Sick(t, 2)
          /\ S2_Failed(t, 2) => S2_Sick(t, 2)

C10_Witness == \E t \in Targets : S2_Target(t) /\ S2_Failed(t, 2)

(***************************************************************************)
(* Properties of the poller left running (LiveSpec)                        *)
(***************************************************************************)
\* C9: a Target that is enabled and stays enabled is probed again and
\* again, also when it was enabled while the dispatcher waited on an empty
\* heap, and each dispatch leaves it on the heap with a later due time.
C9_ProbedAgainAndAgain ==
    /\ \A t \in Targets :
          <>[](OnHeap(t) /\ Up) => []<>(tasks[t]["poke"] > 0)
    /\ [][\A t \in Targets :
             (Held(t)' /\ ~Held(t))
                => OnHeap(t)' /\ vt'[t].due > vt[t].due /\ vt'[t].due > now]_vars

\* a probe of the Target runs while the Target is back on the heap for a
\* later time and the dispatcher waits for that time
C9_Witness ==
    \E t \in Targets :
       OnHeap(t) /\ tasks[t]["poke"] > 0 /\ vt[t].due > now /\ disp.pc = "wait"

\* the dispatcher finishes the failure path of a submit for Target t
FailsFor(t) == disp.pc = "fail" /\ disp.vt = t /\ disp'.pc = "eval"

\* C17: when Pool_Task_Any fails the dispatcher sets running to 0; the
\* bitmaps and good of the Target, the backend and the heap stay as they
\* are, so that a Target that is on the heap is still there, once, with the
\* due time its dispatch gave it; and a Target that stays enabled is
\* dispatched again, when that time has come.
C17_FailedSubmitRetried ==
    /\ [][\A t \in Targets :
             /\ FailsFor(t)
                   => /\ vt'[t].running = 0
                      /\ vt'[t].bm = vt[t].bm /\ vt'[t].good = vt[t].good
                      /\ be'[t] = be[t]
                      /\ vbp_heap' = vbp_heap
                      /\ vt'[t].due = vt[t].due
                      /\ OnHeap(t) => Places(t)' = {vt'[t].heap_idx}
             /\ Pops(t) => vt[t].due <= now]_vars
    /\ \A t \in Targets :
          <>[](OnHeap(t) /\ Up)
             => []((disp.pc = "fail" /\ disp.vt = t)
                      => <>(disp.pc = "submit" /\ disp.vt = t))

\* the submit of the first dispatch of a Target has failed: no task has run
\* or is in flight, the Target is idle and on the heap for its next time
C17_Witness ==
    \E t \in Targets :
       /\ disp.pc = "eval" /\ OnHeap(t) /\ vt[t].running = 0
       /\ vt[t].due = now + vt[t].probe.interval
       /\ InFlight(t) = 0 /\ vsl[t].seq = 1

(***************************************************************************)
(* Properties of one probe attempt (PokeSpec)                              *)
(***************************************************************************)
\* the newest bit of bitmap n of the Target that vbp_poke has just probed
Newest(n) == Bit0(vt[io.t].bm[n])

\* C11: when vbp_poke returns, the newest happy bit is set exactly if the
\* connect succeeded, the budget was not spent, the request was written
\* completely, no poll timed out, response bytes were read up to the end
\* without a read error, and the status line carried the expected status;
\* and newest happy => newest good_recv => newest good_xmit => exactly one
\* of newest good_ipv4, good_ipv6.
C11_HappyIffProbeSucceeded ==
    io.pc = "ret" =>
       /\ Newest("happy") <=>
             /\ io.af \in {AF_INET, AF_INET6}
             /\ ~io.late
             /\ io.wr = "full"
             /\ ~io.poll0
             /\ io.i = 0 /\ io.rlen > 0
             /\ io.status # 0 /\ io.status = vt[io.t].probe.exp_status
       /\ Newest("happy") => Newest("good_recv")
       /\ Newest("good_recv") => Newest("good_xmit")
       /\ Newest("good_xmit") => (Newest("good_ipv4") # Newest("good_ipv6"))

\* a probe over IPv6 that read a response with the expected status returns
C11_Witness ==
    /\ io.pc = "ret" /\ io.af = AF_INET6 /\ io.rlen = MaxReads
    /\ io.status = DEF_EXP_STATUS /\ Newest("happy")

(***************************************************************************)
(* Properties of the heap and the dispatcher with two Targets (HeapSpec)   *)
(***************************************************************************)
\* C14: a Target is on the heap exactly if its heap_idx is not
\* BINHEAP_NOIDX, heap_idx is then its one place on the heap, and an Enable
\* of a Target on the heap or a Disable of one off the heap fails its
\* assertion and leaves the heap and the Targets as they are.
C14_HeapIdxIffOnHeap ==
    /\ [](\A t \in Backends :
             /\ OnHeap(t) <=> vt[t].heap_idx # BINHEAP_NOIDX
             /\ OnHeap(t) => Places(t) = {vt[t].heap_idx})
    /\ [][(aborted' /\ ~aborted) => (vbp_heap' = vbp_heap /\ vt' = vt)]_vars

\* an assertion of VBP_Control has failed with both Targets on the heap,
\* the one that was dispatched behind the other
C14_Witness ==
    /\ aborted
    /\ vbp_heap = <<"b2", "b1">>
    /\ vt["b1"].heap_idx = 2 /\ vt["b2"].heap_idx = 1
    /\ vt["b1"].running = 1 /\ vt["b1"].due > vt["b2"].due

\* C15: the dispatcher pops a Target only when its due time has come, and
\* no Target on the heap is due before the one it pops; when the root is
\* not due yet it sleeps until that due time, the earliest on the heap, and
\* on an empty heap it sleeps 8.192 s.
C15_EarliestDueFirst ==
    [][/\ \A t \in Backends :
             Pops(t) => /\ OnHeap(t) /\ vt[t].due <= now
                        /\ \A u \in Backends :
                              OnHeap(u) => vt[t].due <= vt[u].due
       /\ (Sleeps /\ vbp_heap # <<>>)
             => /\ disp'.nxt > now
                /\ \E t \in Backends : OnHeap(t) /\ disp'.nxt = vt[t].due
                /\ \A u \in Backends : OnHeap(u) => disp'.nxt <= vt[u].due
       /\ (Sleeps /\ vbp_heap = <<>>) => disp'.nxt = now + IDLE_WAIT]_vars

\* two Targets were due: the dispatcher has popped one and put it back
\* behind the other, which is still due
C15_Witness ==
    /\ Held("b2") /\ vbp_heap = <<"b1", "b2">>
    /\ vt["b1"].due = now /\ vt["b2"].due > now
    /\ vt["b1"].running = 0

Remaining == io.t_end - io.clk

\* C18: every poll of the read loop is given at most the time that is left
\* until t_start + timeout when it is called (rounded to the nearest
\* millisecond), vbp_poke returns by that deadline (or the half millisecond
\* later that the rounding allows), and it returns with the socket closed
\* when it finds the budget spent.
C18_ReturnsByDeadline ==
    /\ io.pc = "poll" => io.tmo = round_ms(Remaining)
    /\ io.pc = "ret" => 2 * Remaining >= -Res
    /\ (io.pc = "ret" /\ io.late) => io.s = "closed"

\* vbp_poke has returned after a read error
ReadFailed == io.pc = "ret" /\ io.wr = "full" /\ io.i < 0

\* after a failed read the newest err_recv bit is set, good_recv is not
C19_ReadError ==
    ReadFailed => /\ Newest("err_recv") /\ ~Newest("good_recv")
                  /\ io.s = "closed"

\* C19 as claimed: after a write error and after a short write alike the
\* newest err_xmit bit is set, the newest good_xmit bit is not, and vbp_poke
\* has returned with the socket closed; after a read error the newest
\* err_recv bit is set and good_recv is not.
C19_ShortWriteIsError ==
    /\ (io.pc = "ret" /\ io.wr \in {"err", "short"})
          => /\ Newest("err_xmit") /\ ~Newest("good_xmit")
             /\ io.s = "closed"
    /\ C19_ReadError

\* C19 as the code has it: only a write error (write returns less than 0)
\* sets the newest err_xmit bit; a short write leaves both err_xmit and
\* good_xmit at 0.  Either way vbp_poke returns with the socket closed.
C19_OnlyWriteErrorIsError ==
    /\ (io.pc = "ret" /\ io.wr = "err")
          => /\ Newest("err_xmit") /\ ~Newest("good_xmit")
             /\ io.s = "closed"
    /\ (io.pc = "ret" /\ io.wr = "short")
          => /\ ~Newest("err_xmit") /\ ~Newest("good_xmit")
             /\ io.s = "closed"
    /\ C19_ReadError

\* a probe ends in a short write, the probe before it in a write error
C19_Witness ==
    /\ io.pc = "ret" /\ io.wr = "short"
    /\ vt[io.t].bm["err_xmit"] = {1} /\ vt[io.t].bm["good_xmit"] = {}

\* a probe task of Target t is between vbp_start_poke and the end of
\* vbp_has_poked: it is writing the bitmaps and good
Modifying(t) ==
    tasks[t]["poke"] + tasks[t]["count"] + tasks[t]["publish"] > 0

\* C20: VBP_Status on the CLI thread reads good and the bitmaps of a Target
\* under vbp_mtx, so it can never run while a probe task of the Target is
\* between vbp_start_poke and the end of vbp_has_poked.
C20_StatusExcludesProbe ==
    \A t \in Targets : ENABLED VBP_Status(t, TRUE) => ~Modifying(t)

====
